---- MODULE Spec2Model ----
\* Model of the liveness endpoint GET /api/health (src/src/app/api/health/route.ts).
\* Every invocation of the async handler is a record of `calls`; the data store
\* behind db.$queryRaw is the environment, which settles a pending probe by
\* resolving it, rejecting it with an error, or leaving it pending.
\* Beside it are modelled the feature flags of docs/api/feature-flags.md (the
\* Phase 1 flags, evaluateFeatureFlag, the FeatureFlagService) and the script
\* scripts/health-check.sh.
EXTENDS Integers, Sequences, FiniteSets, TLC

VARIABLES
    \* the endpoint and what it touches
    clock, db, calls, started, dbQueries, log, store,
    \* the feature-flag module and the process environment it reads
    env, envAtLoad, envChanges, FEATURE_FLAGS, lookup,
    \* one run of scripts/health-check.sh
    line, inContainer, check, printed, node_version, mem_gb, exited,
    \* the calls of evaluateFeatureFlag: the last one, and what is kept of the one before
    evalCall, evalPrev,
    \* the FeatureFlagService, its database tables, and the calls made to it
    now, cache, cacheExpiry, featureFlag, featureFlagEvent, ops, committed

healthVars == <<clock, db, calls, started, dbQueries, log, store>>

flagVars == <<env, envAtLoad, envChanges, FEATURE_FLAGS, lookup>>

scriptVars == <<line, inContainer, check, printed, node_version, mem_gb, exited>>

evalVars == <<evalCall, evalPrev>>

\* what the endpoint and the Phase 1 flags never touch
serviceVars == <<now, cache, cacheExpiry, featureFlag, featureFlagEvent, ops, committed>>

\* what the endpoint and the Phase 1 flags never touch
otherVars == <<scriptVars, evalVars, serviceVars>>

vars == <<healthVars, flagVars, otherVars>>

----------------------------------------------------------------------------
\* Bounds of the model.

\* number of invocations of GET in one behaviour
MaxCalls == 2
\* the wall clock, in milliseconds, runs from 0 to MaxTime
MaxTime == 6000
\* milliseconds the wall clock advances by in one step
TickMs == 3000
\* number of changes made to process.env after the flag module was loaded
MaxEnvChanges == 1
\* number of calls of getFlag and updateFlag in one behaviour
MaxOps == 3
\* number of them that are calls of updateFlag
MaxUpdates == 1
\* number of steps of half a CACHE_TTL that Date.now() makes
MaxTicks == 2

----------------------------------------------------------------------------
\* Values

\* status NextResponse.json gives a response when no init is passed
StatusOK == 200
\* { status: 503 }
ServiceUnavailable == 503
\* [ "$node_version" -ge 20 ]
NodeMinimum == 20
\* [ "$mem_gb" -ge 6 ]
MemMinimumGb == 6
\* private readonly CACHE_TTL = 60000; // 1 minute
CACHE_TTL == 60000

CallIds == 1..MaxCalls

\* Errors the data-store client can raise from $queryRaw: connection refused,
\* timeout, authentication failure, query error. A message is a sequence of words.
ConnectionRefused ==
    [code |-> "P1001", message |-> <<"Can't", "reach", "database", "server">>]
PoolTimeout ==
    [code |-> "P2024", message |-> <<"Timed", "out", "fetching", "a", "new", "connection">>]
AuthFailure ==
    [code |-> "P1000", message |-> <<"Authentication", "failed", "against", "database", "server">>]
QueryError ==
    [code |-> "P2010", message |-> <<"Raw", "query", "failed">>]

ProbeErrors == {ConnectionRefused, PoolTimeout, AuthFailure, QueryError}

NoError == [code |-> "none", message |-> <<>>]

\* conditions of the data store: answering, failing, or not answering at all
DbStates == {"up", "down", "hung"}

NoResponse == [status |-> 0]

\* inbound requests: GET /api/health, bare, with a query string, with a body
BareRequest == [query |-> "", body |-> ""]

Requests ==
    {BareRequest, [query |-> "verbose=1", body |-> ""], [query |-> "", body |-> "{}"]}

\* rows the data store holds when the process starts
InitialRows == {"user:1", "post:1"}

\* SELECT 1 with the rows of the store made to hold a heartbeat row as well
SelectOneHeartbeat(rows) == rows \cup {"heartbeat"}

\* what the statement SELECT 1 leaves in the store
SelectOne(rows) == rows

\* new Date().toISOString(): the instant, to the millisecond, as date-time fields
ToISOString(t) == [s |-> t \div 1000, ms |-> t % 1000]

\* HealthyBody with the services object of the catch block pasted in
HealthyBodyPasted(t) ==
    [status |-> "healthy",
     timestamp |-> ToISOString(t),
     services |-> [database |-> "disconnected", api |-> "operational"]]

\* HealthyBody with a field that changes from call to call
HealthyBodyWithUptime(t) ==
    [status |-> "healthy",
     timestamp |-> ToISOString(t),
     uptime |-> t \div 1000,
     services |-> [database |-> "connected", api |-> "operational"]]

\* HealthyBody with an error field that is always written, empty on success
HealthyBodyEmptyError(t) ==
    [status |-> "healthy",
     timestamp |-> ToISOString(t),
     error |-> <<>>,
     services |-> [database |-> "connected", api |-> "operational"]]

\* the body of the success response
HealthyBody(t) ==
    [status |-> "healthy",
     timestamp |-> ToISOString(t),
     services |-> [database |-> "connected", api |-> "operational"]]

\* UnhealthyBody with the status of the try block pasted in
UnhealthyBodyPasted(t, error) ==
    [status |-> "healthy",
     timestamp |-> ToISOString(t),
     error |-> <<"Database", "connection", "failed">>,
     services |-> [database |-> "disconnected", api |-> "operational"]]

\* UnhealthyBody with error: error.message
UnhealthyBodyLeaking(t, error) ==
    [status |-> "unhealthy",
     timestamp |-> ToISOString(t),
     error |-> error.message,
     services |-> [database |-> "disconnected", api |-> "operational"]]

\* UnhealthyBody reporting the API as down together with the database
UnhealthyBodyApiDown(t, error) ==
    [status |-> "unhealthy",
     timestamp |-> ToISOString(t),
     error |-> <<"Database", "connection", "failed">>,
     services |-> [database |-> "disconnected", api |-> "down"]]

\* the body of the failure response; `error` is the caught value
UnhealthyBody(t, error) ==
    [status |-> "unhealthy",
     timestamp |-> ToISOString(t),
     error |-> <<"Database", "connection", "failed">>,
     services |-> [database |-> "disconnected", api |-> "operational"]]

\* NextResponse.json(body, init)
JsonResponse(body, status) == [status |-> status, body |-> body]

\* console.error('Health check failed:', error)
LogEntry(id, error) == [call |-> id, label |-> <<"Health", "check", "failed:">>, error |-> error]

IdleCall ==
    [pc |-> "idle", req |-> BareRequest, probe |-> "none", error |-> NoError,
     queries |-> 0, arrived |-> 0, settled |-> 0, resp |-> NoResponse]

----------------------------------------------------------------------------
\* Steps of one invocation, as functions of its record c

\* GET is entered: the try block issues db.$queryRaw`SELECT 1` and awaits it
StartProbe(c, t) ==
    [c EXCEPT !.pc = "await", !.probe = "pending", !.queries = @ + 1, !.arrived = t]

\* the awaited promise is fulfilled
Resolved(c, t) == [c EXCEPT !.probe = "resolved", !.settled = t]

\* the awaited promise is rejected with e
Rejected(c, e, t) ==
    [c EXCEPT !.probe = "rejected", !.error = e, !.settled = t]

\* await raced against a timer of the handler: a pending probe throws
AwaitOutcomeTimeout(c) == IF c.probe = "pending" THEN "rejected" ELSE c.probe

\* the query issued without await: the try block runs on at once
AwaitOutcomeNotAwaited(c) == "resolved"

\* what `await` does with the promise: "pending" suspends the handler,
\* "resolved" lets the try block run on, "rejected" throws into the catch block
AwaitOutcome(c) == c.probe

\* OnResolved of a handler that remembers, in a module variable, that a check failed
OnResolvedSticky(c, t) ==
    IF log # <<>>
    THEN [c EXCEPT !.pc = "done",
                   !.resp = JsonResponse(UnhealthyBody(t, NoError), ServiceUnavailable)]
    ELSE [c EXCEPT !.pc = "done", !.resp = JsonResponse(HealthyBody(t), StatusOK)]

\* OnResolved of a handler that keeps the outcome of the last probe in a
\* module variable which every invocation writes and reads
OnResolvedShared(c, t) ==
    IF \E k \in CallIds : calls[k].probe = "rejected"
    THEN [c EXCEPT !.pc = "done",
                   !.resp = JsonResponse(UnhealthyBody(t, NoError), ServiceUnavailable)]
    ELSE [c EXCEPT !.pc = "done", !.resp = JsonResponse(HealthyBody(t), StatusOK)]

\* OnResolved with the Date taken once, when the module was loaded
OnResolvedLoadTime(c, t) ==
    [c EXCEPT !.pc = "done", !.resp = JsonResponse(HealthyBody(0), StatusOK)]

\* OnResolved of a handler that takes the request and reads its query string
OnResolvedVerbose(c, t) ==
    IF c.req.query = "verbose=1"
    THEN [c EXCEPT !.pc = "done",
                   !.resp = JsonResponse(HealthyBodyWithUptime(t), StatusOK)]
    ELSE [c EXCEPT !.pc = "done", !.resp = JsonResponse(HealthyBody(t), StatusOK)]

\* OnResolved of a handler that waits, after the probe, for something that
\* never happens
OnResolvedWaits(c, t) == c

\* the rest of the try block after the await
OnResolved(c, t) ==
    [c EXCEPT !.pc = "done", !.resp = JsonResponse(HealthyBody(t), StatusOK)]

\* OnRejected of a handler that issues the query again when it failed
OnRejectedRetry(c, t) ==
    [c EXCEPT !.probe = "pending", !.error = NoError, !.queries = @ + 1]

\* OnRejected of a catch block that logs and throws the error on
OnRejectedRethrow(c, t) == [c EXCEPT !.pc = "threw"]

\* OnRejected with { status: 500 }
OnRejectedInternalError(c, t) ==
    [c EXCEPT !.pc = "done",
              !.resp = JsonResponse(UnhealthyBody(t, c.error), 500)]

\* OnRejected with the Date taken when the request arrived
OnRejectedArrivalTime(c, t) ==
    [c EXCEPT !.pc = "done",
              !.resp = JsonResponse(UnhealthyBody(c.arrived, c.error), ServiceUnavailable)]

\* OnRejected without the { status: 503 } init
OnRejectedNoInit(c, t) ==
    [c EXCEPT !.pc = "done",
              !.resp = JsonResponse(UnhealthyBody(t, c.error), StatusOK)]

\* the catch block, after console.error
OnRejected(c, t) ==
    [c EXCEPT !.pc = "done",
              !.resp = JsonResponse(UnhealthyBody(t, c.error), ServiceUnavailable)]

\* CatchLog without the caught value: console.error('Health check failed')
CatchLogLabelOnly(id, c) == <<LogEntry(id, NoError)>>

\* what the catch block writes to the console
CatchLog(id, c) == <<LogEntry(id, c.error)>>

----------------------------------------------------------------------------
\* Phase 1 feature flags (docs/api/feature-flags.md, src/lib/feature-flags.ts)

\* keyof typeof FEATURE_FLAGS
FlagKeys == {"NEW_DASHBOARD", "BETA_API", "ADVANCED_ANALYTICS"}

\* process.env.FEATURE_<flag>: unset (undefined) or a string
Unset == [set |-> FALSE, value |-> ""]

EnvValues ==
    {Unset} \cup {[set |-> TRUE, value |-> v] : v \in {"true", "TRUE", "1", ""}}

AllUnset == [k \in FlagKeys |-> Unset]

\* a flag test that takes every non-empty value for true
EnvIsTruthy(v) == v.set /\ v.value # ""

\* process.env.FEATURE_X === "true"
EnvIsTrue(v) == v.set /\ v.value = "true"

\* the object literal FEATURE_FLAGS, evaluated when the module is loaded
LoadFlags(e) == [k \in FlagKeys |-> EnvIsTrue(e[k])]

\* isFeatureEnabled(flag): FEATURE_FLAGS[flag] ?? false
IsFeatureEnabled(flag) ==
    IF flag \in DOMAIN FEATURE_FLAGS THEN FEATURE_FLAGS[flag] ELSE FALSE

\* the last call of isFeatureEnabled: its argument, its result, and the number
\* of changes of the environment made before it
NoLookup == [flag |-> "", result |-> FALSE, after |-> 0]

\* the module is loaded in a process whose environment is e
FlagsInit(e) ==
    /\ env = e
    /\ envAtLoad = e
    /\ envChanges = 0
    /\ FEATURE_FLAGS = LoadFlags(e)
    /\ lookup = NoLookup

\* process.env.FEATURE_<k> is set to v, or deleted, after the module was loaded
SetEnv(k, v) ==
    /\ envChanges < MaxEnvChanges
    /\ env[k] # v
    /\ env' = [env EXCEPT ![k] = v]
    /\ envChanges' = envChanges + 1
    /\ UNCHANGED <<envAtLoad, FEATURE_FLAGS, lookup, healthVars, otherVars>>

\* a component calls isFeatureEnabled(flag)
LookupFlag(flag) ==
    /\ lookup' = [flag |-> flag, result |-> IsFeatureEnabled(flag), after |-> envChanges]
    /\ UNCHANGED <<env, envAtLoad, envChanges, FEATURE_FLAGS, healthVars, otherVars>>

----------------------------------------------------------------------------
\* no check_status call made yet
NoCheck == [line |-> 0, exit |-> 0, result |-> <<>>, expected |-> <<>>]

\* bash starts scripts/health-check.sh; container tells whether /.dockerenv exists
ScriptInit(container) ==
    /\ line = 44
    /\ inContainer = container
    /\ check = NoCheck
    /\ printed = <<>>
    /\ node_version = <<>>
    /\ mem_gb = <<>>
    /\ exited = "no"

\* evaluateFeatureFlag not called yet
NoEvaluation == [called |-> FALSE]

NoSummary == [called |-> FALSE]

EvalInit ==
    /\ evalCall = NoEvaluation
    /\ evalPrev = NoSummary

\* a Map holds no entry for the key
Undefined == [kind |-> "undefined"]

\* findUnique found no row
Null == [kind |-> "null"]

\* a call of getFlag or updateFlag not made yet
IdleOp ==
    [kind |-> "none", pc |-> "idle", floor |-> 0, hit |-> FALSE, expired |-> FALSE,
     flag |-> Undefined, wrote |-> 0]

\* new FeatureFlagService(), over a table whose row for the key is row; no call made
ServiceInit(row) ==
    /\ now = 0
    /\ cache = Undefined
    /\ cacheExpiry = 0
    /\ featureFlag = row
    /\ featureFlagEvent = <<>>
    /\ ops = [i \in 1..MaxOps |-> IdleOp]
    /\ committed = 0

\* the parts of the repository that the endpoint does not run
OthersInit == ScriptInit(FALSE) /\ EvalInit /\ ServiceInit(Null)

Init ==
    /\ clock = 0
    /\ db \in DbStates
    /\ calls = [i \in CallIds |-> IdleCall]
    /\ started = 0
    /\ dbQueries = 0
    /\ log = <<>>
    /\ store = InitialRows
    /\ FlagsInit(AllUnset)
    /\ OthersInit

\* the flag module loaded under any environment, the endpoint not in use
InitFlags ==
    /\ clock = 0
    /\ db = "up"
    /\ calls = [i \in CallIds |-> IdleCall]
    /\ started = 0
    /\ dbQueries = 0
    /\ log = <<>>
    /\ store = InitialRows
    /\ \E e \in [FlagKeys -> EnvValues] : FlagsInit(e)
    /\ OthersInit

\* time passes
Tick ==
    /\ clock + TickMs <= MaxTime
    /\ clock' = clock + TickMs
    /\ UNCHANGED <<db, calls, started, dbQueries, log, store, flagVars, otherVars>>

\* the data store fails, hangs or recovers
DbChange(s) ==
    /\ s # db
    /\ db' = s
    /\ UNCHANGED <<clock, calls, started, dbQueries, log, store, flagVars, otherVars>>

\* request r arrives: GET() runs up to its await
InvokeWith(r) ==
    /\ started < MaxCalls
    /\ started' = started + 1
    /\ calls' = [calls EXCEPT ![started + 1] = StartProbe([@ EXCEPT !.req = r], clock)]
    /\ dbQueries' = dbQueries + (calls'[started + 1].queries - calls[started + 1].queries)
    /\ UNCHANGED <<clock, db, log, store, flagVars, otherVars>>

\* a bare request arrives
Invoke == InvokeWith(BareRequest)

\* the data store answers the query of invocation i
ProbeResolve(i) ==
    /\ calls[i].probe = "pending"
    /\ db = "up"
    /\ calls' = [calls EXCEPT ![i] = Resolved(@, clock)]
    /\ store' = SelectOne(store)
    /\ UNCHANGED <<clock, db, started, dbQueries, log, flagVars, otherVars>>

\* the query of invocation i fails with error e
ProbeReject(i, e) ==
    /\ calls[i].probe = "pending"
    /\ db = "down"
    /\ calls' = [calls EXCEPT ![i] = Rejected(@, e, clock)]
    /\ UNCHANGED <<clock, db, started, dbQueries, log, store, flagVars, otherVars>>

\* invocation i runs on after a fulfilled await and returns the success response
RespondHealthy(i) ==
    /\ calls[i].pc = "await"
    /\ AwaitOutcome(calls[i]) = "resolved"
    /\ calls' = [calls EXCEPT ![i] = OnResolved(@, clock)]
    /\ dbQueries' = dbQueries + (calls'[i].queries - calls[i].queries)
    /\ UNCHANGED <<clock, db, started, log, store, flagVars, otherVars>>

\* invocation i runs its catch block: logs the error and returns the failure response
RespondUnhealthy(i) ==
    /\ calls[i].pc = "await"
    /\ AwaitOutcome(calls[i]) = "rejected"
    /\ log' = log \o CatchLog(i, calls[i])
    /\ calls' = [calls EXCEPT ![i] = OnRejected(@, clock)]
    /\ dbQueries' = dbQueries + (calls'[i].queries - calls[i].queries)
    /\ UNCHANGED <<clock, db, started, store, flagVars, otherVars>>

Next ==
    \/ Tick
    \/ \E s \in DbStates : DbChange(s)
    \/ Invoke
    \/ \E i \in CallIds : ProbeResolve(i)
    \/ \E i \in CallIds, e \in ProbeErrors : ProbeReject(i, e)
    \/ \E i \in CallIds : RespondHealthy(i)
    \/ \E i \in CallIds : RespondUnhealthy(i)

Spec == Init /\ [][Next]_vars

\* the event loop runs the continuation of every settled await
FairSpec ==
    /\ Spec
    /\ \A i \in CallIds :
           WF_vars(RespondHealthy(i)) /\ WF_vars(RespondUnhealthy(i))

\* the endpoint under requests of any content (and one kind of probe error)
NextRequests ==
    \/ Tick
    \/ \E s \in DbStates : DbChange(s)
    \/ \E r \in Requests : InvokeWith(r)
    \/ \E i \in CallIds : ProbeResolve(i)
    \/ \E i \in CallIds : ProbeReject(i, ConnectionRefused)
    \/ \E i \in CallIds : RespondHealthy(i)
    \/ \E i \in CallIds : RespondUnhealthy(i)

SpecRequests == Init /\ [][NextRequests]_vars

\* the Phase 1 feature flags
NextFlags ==
    \/ \E k \in FlagKeys, v \in EnvValues : SetEnv(k, v)
    \/ \E flag \in FlagKeys : LookupFlag(flag)

SpecFlags == InitFlags /\ [][NextFlags]_vars

----------------------------------------------------------------------------
\* Vocabulary of the properties

Responded(i) == calls[i].pc = "done"

ProbeSucceeded(i) == calls[i].probe = "resolved"

ProbeFailed(i) == calls[i].probe = "rejected"

Body(i) == calls[i].resp.body

\* a body without its timestamp
StripTimestamp(body) == [f \in DOMAIN body \ {"timestamp"} |-> body[f]]

\* a response without the timestamp of its body
Modulo(resp) == [status |-> resp.status, body |-> StripTimestamp(resp.body)]

\* needle occurs in hay as a run of consecutive words
Contains(hay, needle) ==
    \E k \in 0..(Len(hay) - Len(needle)) :
        \A n \in 1..Len(needle) : hay[k + n] = needle[n]

\* the instant a timestamp denotes, in milliseconds
TimestampMs(ts) == ts.s * 1000 + ts.ms

\* invocation i had returned its response before invocation j was made
Earlier(i, j) ==
    /\ Responded(i)
    /\ calls[j].pc # "idle"
    /\ TimestampMs(Body(i).timestamp) < calls[j].arrived

\* the two responses of the endpoint, without timestamp
Healthy200 ==
    [status |-> 200,
     body |-> [status |-> "healthy",
               services |-> [database |-> "connected", api |-> "operational"]]]

Unhealthy503 ==
    [status |-> 503,
     body |-> [status |-> "unhealthy",
               error |-> <<"Database", "connection", "failed">>,
               services |-> [database |-> "disconnected", api |-> "operational"]]]

\* all the text of a body, timestamp aside
BodyWords(body) ==
    <<body.status>>
    \o (IF "error" \in DOMAIN body THEN body.error ELSE <<>>)
    \o <<body.services.database, body.services.api>>

----------------------------------------------------------------------------
C3_StatusIffProbe ==
    \A i \in CallIds :
        Responded(i) =>
            /\ (Body(i).status = "healthy") <=> ProbeSucceeded(i)
            /\ (calls[i].resp.status = 503) <=> ProbeFailed(i)
            /\ ProbeSucceeded(i) =>
                   (Body(i).status # "unhealthy" /\ calls[i].resp.status # 503)

C3_Witness ==
    \E i, j \in CallIds :
        /\ Responded(i) /\ ProbeSucceeded(i)
        /\ Responded(j) /\ ProbeFailed(j)

C6_NoMemory ==
    \A j \in CallIds :
        Responded(j) =>
            /\ ProbeSucceeded(j) => Modulo(calls[j].resp) = Healthy200
            /\ ProbeFailed(j) => Modulo(calls[j].resp) = Unhealthy503
            /\ \A i \in CallIds :
                   (Responded(i) /\ calls[i].probe = calls[j].probe) =>
                       Modulo(calls[i].resp) = Modulo(calls[j].resp)

C6_Witness ==
    \E i, j \in CallIds :
        /\ Earlier(i, j)
        /\ ProbeFailed(i)
        /\ Responded(j) /\ ProbeSucceeded(j)

C8_OneProbe ==
    /\ \A i \in CallIds :
           calls[i].queries = (IF calls[i].pc = "idle" THEN 0 ELSE 1)
    /\ dbQueries = started

C8_Witness ==
    \E i, j \in CallIds :
        /\ Responded(i) /\ ProbeFailed(i) /\ calls[i].queries = 1
        /\ Responded(j) /\ ProbeSucceeded(j) /\ calls[j].queries = 1
        /\ dbQueries = 2

\* C9: an invocation whose probe never completes never produces a response;
\* the handler enforces no timeout of its own.
C9_HungProbeNoResponse ==
    \A i \in CallIds :
        [](calls[i].probe \in {"none", "pending"}) => [](calls[i].resp = NoResponse)

C9_Witness ==
    \E i \in CallIds :
        /\ db = "hung"
        /\ calls[i].probe = "pending"
        /\ calls[i].arrived = 0
        /\ clock >= 2 * TickMs
        /\ calls[i].resp = NoResponse

\* C10: a response is produced only after the probe of its invocation has
\* completed; while the probe is pending the invocation has no response, and
\* a started probe is never cancelled: it stays pending until it completes,
\* and a completed probe stays completed.
C10_RespondAfterProbe ==
    /\ [](\A i \in CallIds :
             /\ calls[i].resp # NoResponse => calls[i].probe \in {"resolved", "rejected"}
             /\ calls[i].probe = "pending" => (calls[i].pc = "await" /\ ~Responded(i)))
    /\ [][\A i \in CallIds :
             /\ calls[i].probe = "pending" =>
                    calls'[i].probe \in {"pending", "resolved", "rejected"}
             /\ calls[i].probe \in {"resolved", "rejected"} =>
                    calls'[i].probe = calls[i].probe]_vars

C10_Witness ==
    \E i, j \in CallIds :
        /\ Responded(i) /\ calls[i].settled < TimestampMs(Body(i).timestamp)
        /\ calls[j].probe = "pending" /\ calls[j].arrived < clock

\* C11: invocations that run concurrently share no mutable state: a step
\* that gives one invocation its response changes no other invocation, the
\* response of an invocation whose probe succeeded is healthy/200 also when
\* the probe of an invocation in flight at the same time failed, and the
\* response of one whose probe failed is unhealthy/503 also when the other's
\* probe succeeded.
C11_ConcurrentIndependent ==
    /\ [](\A i, j \in CallIds :
             (i # j /\ Responded(i) /\ calls[j].pc # "idle") =>
                 /\ (ProbeSucceeded(i) /\ ProbeFailed(j)) =>
                        Modulo(calls[i].resp) = Healthy200
                 /\ (ProbeFailed(i) /\ ProbeSucceeded(j)) =>
                        Modulo(calls[i].resp) = Unhealthy503)
    /\ [][\A i \in CallIds :
             calls'[i].resp # calls[i].resp =>
                 \A j \in CallIds \ {i} : calls'[j] = calls[j]]_vars

\* the later invocation has answered healthy while the earlier one, whose
\* probe failed, is still in flight
C11_Witness ==
    \E i, j \in CallIds :
        /\ j < i
        /\ calls[j].pc = "await" /\ ProbeFailed(j)
        /\ Responded(i) /\ ProbeSucceeded(i)

\* C12: a probe failure never leaves the handler as an exception: an invocation
\* whose probe raised ends by returning a response value, the 503 report, and
\* none ends by throwing; after a failed check a further request can still be
\* taken.
C12_FailureCaught ==
    \A i \in CallIds :
        /\ calls[i].pc \in {"idle", "await", "done"}
        /\ (ProbeFailed(i) /\ calls[i].pc # "await") =>
               /\ Responded(i)
               /\ calls[i].resp # NoResponse
               /\ calls[i].resp.status = 503
               /\ started < MaxCalls => ENABLED Invoke

\* a failed check has been answered, and an invocation made after it as well
C12_Witness ==
    \E i, j \in CallIds :
        /\ Earlier(i, j)
        /\ ProbeFailed(i) /\ calls[i].resp.status = 503
        /\ Responded(j)

\* C13: a response body has an error field exactly when it is the unhealthy
\* one: every unhealthy/503 body has it and no healthy/200 body has it.
C13_ErrorIffUnhealthy ==
    \A i \in CallIds :
        Responded(i) =>
            /\ ("error" \in DOMAIN Body(i)) <=> (Body(i).status = "unhealthy")
            /\ ("error" \in DOMAIN Body(i)) <=> (calls[i].resp.status = 503)
            /\ ("error" \notin DOMAIN Body(i)) <=>
                   (Body(i).status = "healthy" /\ calls[i].resp.status = 200)

C13_Witness ==
    \E i, j \in CallIds :
        /\ Responded(i) /\ "error" \in DOMAIN Body(i)
        /\ Responded(j) /\ "error" \notin DOMAIN Body(j)

C15_TimestampNearCall ==
    \A i \in CallIds :
        Responded(i) =>
            /\ TimestampMs(Body(i).timestamp) >= calls[i].arrived
            /\ TimestampMs(Body(i).timestamp) - calls[i].arrived <= 5000

\* C15 as amended: the timestamp of a response denotes, to the millisecond,
\* the time at which the response is constructed, which is never before the
\* call; it lags the call by the time the invocation took, and so is within 5
\* seconds of the call exactly when the response is produced within 5 seconds.
C15_TimestampAtResponse ==
    [][\A i \in CallIds :
          (calls[i].pc = "await" /\ calls'[i].pc = "done") =>
              LET ts == TimestampMs(calls'[i].resp.body.timestamp)
              IN  /\ ts = clock
                  /\ ts >= calls[i].arrived
                  /\ (ts - calls[i].arrived <= 5000) <=> (clock - calls[i].arrived <= 5000)]_vars

\* a response produced some time after the call, within the tolerance
C15_Witness ==
    \E i \in CallIds :
        /\ Responded(i)
        /\ TimestampMs(Body(i).timestamp) - calls[i].arrived \in 1..5000
        /\ calls[i].settled > calls[i].arrived

\* C16: invocations change nothing in the data store: no step changes its
\* rows, so after any sequence of successful and failing invocations the store
\* holds what it held before them.
C16_StoreUnchanged ==
    /\ [](store = InitialRows)
    /\ [][store' = store]_vars

C16_Witness ==
    /\ store = InitialRows
    /\ dbQueries = MaxCalls
    /\ \E i, j \in CallIds :
           /\ Responded(i) /\ ProbeSucceeded(i)
           /\ Responded(j) /\ ProbeFailed(j)

\* C17: the response does not depend on the content of the request: two
\* requests that differ in query string or body and meet the same probe
\* outcome get responses that are equal apart from the timestamp.
C17_RequestIgnored ==
    \A i, j \in CallIds :
        (Responded(i) /\ Responded(j) /\ calls[i].probe = calls[j].probe) =>
            Modulo(calls[i].resp) = Modulo(calls[j].resp)

C17_Witness ==
    \E i, j \in CallIds :
        /\ Responded(i) /\ Responded(j)
        /\ ProbeSucceeded(i) /\ ProbeSucceeded(j)
        /\ calls[i].req.query # calls[j].req.query
        /\ Body(i).timestamp # Body(j).timestamp

\* log entries written by invocation i
LogEntriesOf(i) == {n \in 1..Len(log) : log[n].call = i}

C19_FlagFromEnvAtLoad ==
    lookup # NoLookup =>
        /\ lookup.result <=>
               (envAtLoad[lookup.flag].set /\ envAtLoad[lookup.flag].value = "true")
        /\ envAtLoad[lookup.flag] \in
               {Unset} \cup {[set |-> TRUE, value |-> v] : v \in {"1", "TRUE", ""}}
                   => ~lookup.result

\* a flag found enabled after its variable was changed from "true" to "1"
C19_Witness ==
    /\ lookup # NoLookup
    /\ lookup.result
    /\ lookup.after > 0
    /\ env[lookup.flag] = [set |-> TRUE, value |-> "1"]
    /\ envAtLoad[lookup.flag] # env[lookup.flag]

\* C20: an invocation whose probe completes, by returning or by raising,
\* eventually produces a response, and it produces exactly one: a response once
\* returned is never replaced.
C20_EventuallyResponds ==
    /\ \A i \in CallIds :
           (calls[i].probe \in {"resolved", "rejected"}) ~> Responded(i)
    /\ [][\A i \in CallIds :
             calls[i].resp # NoResponse => calls'[i].resp = calls[i].resp]_vars

\* every invocation has answered, one of them after a probe that took long
C20_Witness ==
    /\ started = MaxCalls
    /\ \A i \in CallIds : Responded(i) /\ calls[i].resp # NoResponse
    /\ \E i \in CallIds : calls[i].settled - calls[i].arrived >= 2 * TickMs

\* C21: the timestamp of a response is taken when the response is constructed,
\* after the probe of the invocation has completed: on the success path and on
\* the failure path it is never earlier than the completion of the probe (and
\* so never earlier than the arrival of the request).
C21_TimestampAfterProbe ==
    \A i \in CallIds :
        Responded(i) =>
            /\ TimestampMs(Body(i).timestamp) >= calls[i].settled
            /\ calls[i].settled >= calls[i].arrived
            /\ TimestampMs(Body(i).timestamp) <= clock

\* on both paths a probe that took time, and a timestamp later than the arrival
C21_Witness ==
    \E i, j \in CallIds :
        /\ Responded(i) /\ ProbeSucceeded(i)
        /\ calls[i].settled > calls[i].arrived
        /\ Responded(j) /\ ProbeFailed(j)
        /\ calls[j].settled > calls[j].arrived
        /\ TimestampMs(Body(j).timestamp) > calls[j].settled

----------------------------------------------------------------------------
\* scripts/health-check.sh
\*
\* A string is a sequence of pieces: a piece is one character, or a run of
\* characters that no command of the script takes apart. The output of free
\* and df is a sequence of lines, a line a sequence of fields, a field a string.

\* the pieces that are one character long
Chars == {"v", ".", "_", "0", "1", "2", "3", "5", "6", "8", "9"}

Digit ==
    ("0" :> 0) @@ ("1" :> 1) @@ ("2" :> 2) @@ ("3" :> 3) @@ ("5" :> 5)
        @@ ("6" :> 6) @@ ("8" :> 8) @@ ("9" :> 9)

\* the operand of -ge is an integer
IsInteger(s) == s # <<>> /\ \A k \in 1..Len(s) : s[k] \in DOMAIN Digit

RECURSIVE IntegerValue(_)
IntegerValue(s) ==
    IF s = <<>> THEN 0
    ELSE 10 * IntegerValue(SubSeq(s, 1, Len(s) - 1)) + Digit[s[Len(s)]]

\* [ "$s" -ge n ]: 0 when true, 1 when false, 2 when s is no integer
TestGe(s, n) ==
    IF ~IsInteger(s) THEN 2
    ELSE IF IntegerValue(s) >= n THEN 0 ELSE 1

\* [[ "$result" == *"$expected"* ]]
Substring(result, expected) ==
    \E off \in 0..(Len(result) - Len(expected)) :
        \A k \in 1..Len(expected) : result[off + k] = expected[k]

\* [[ "$result" =~ $expected ]]: an unanchored search; the expected strings of
\* the script hold no regular-expression operator but the dot
RegexMatch(result, expected) ==
    \E off \in 0..(Len(result) - Len(expected)) :
        \A k \in 1..Len(expected) :
            \/ result[off + k] = expected[k]
            \/ expected[k] = "." /\ result[off + k] \in Chars

Echo(text, value) == [text |-> text, value |-> value]

\* check_status with the regular-expression test left out
CheckStatusNoRegex(exit, result, expected) ==
    IF exit = 0
    THEN IF expected = <<>> \/ Substring(result, expected)
         THEN [lines |-> <<Echo("OK", <<>>)>>
                         \o (IF result # <<>> THEN <<Echo("->", result)>> ELSE <<>>)
                         \o <<Echo("", <<>>)>>,
               status |-> 0]
         ELSE [lines |-> <<Echo("Warning", <<>>), Echo("Expected:", expected),
                           Echo("Got:", result), Echo("", <<>>)>>,
               status |-> 0]
    ELSE [lines |-> <<Echo("Failed", <<>>), Echo("", <<>>)>>, status |-> 0]

\* check_status, after `result=$(eval "$command" 2>/dev/null)` gave exit and
\* result: the lines it prints and its return status, that of the last echo
CheckStatus(exit, result, expected) ==
    IF exit = 0
    THEN IF \/ expected = <<>>
            \/ Substring(result, expected)
            \/ RegexMatch(result, expected)
         THEN [lines |-> <<Echo("OK", <<>>)>>
                         \o (IF result # <<>> THEN <<Echo("->", result)>> ELSE <<>>)
                         \o <<Echo("", <<>>)>>,
               status |-> 0]
         ELSE [lines |-> <<Echo("Warning", <<>>), Echo("Expected:", expected),
                           Echo("Got:", result), Echo("", <<>>)>>,
               status |-> 0]
    ELSE [lines |-> <<Echo("Failed", <<>>), Echo("", <<>>)>>, status |-> 0]

\* a tool run: it prints one of outs and exits 0, or it fails (exit 1), or it
\* is not installed (exit 127)
ToolRuns(outs) ==
    {[exit |-> 0, out |-> o] : o \in outs}
        \cup {[exit |-> 1, out |-> <<>>], [exit |-> 127, out |-> <<>>]}

\* a pipeline under `set -o pipefail`: the last status that is not 0
PipelineStatusPipefail(statuses) ==
    IF \A k \in 1..Len(statuses) : statuses[k] = 0 THEN 0
    ELSE statuses[CHOOSE k \in 1..Len(statuses) :
                      /\ statuses[k] # 0
                      /\ \A m \in (k + 1)..Len(statuses) : statuses[m] = 0]

\* the exit status of a pipeline is that of its last command
PipelineStatus(statuses) == statuses[Len(statuses)]

\* grep '^Mem:': the lines that begin with prefix; 1 when there is none
Grep(lines, prefix) ==
    LET Begins(l) == Len(l) > 0 /\ l[1] = prefix
        sel == SelectSeq(lines, Begins)
    IN [exit |-> IF sel = <<>> THEN 1 ELSE 0, out |-> sel]

\* tail -1
TailOne(lines) ==
    [exit |-> 0, out |-> IF lines = <<>> THEN <<>> ELSE <<lines[Len(lines)]>>]

\* awk '{print $k}': of every line its field k, or an empty line
Awk(lines, k) ==
    [exit |-> 0,
     out |-> [i \in 1..Len(lines) |->
                 IF Len(lines[i]) >= k THEN lines[i][k] ELSE <<>>]]

\* sed 's/v//' on one line: the first v is taken out
Sed(s) ==
    IF \E k \in 1..Len(s) : s[k] = "v"
    THEN LET k == CHOOSE k \in 1..Len(s) :
                      s[k] = "v" /\ \A m \in 1..(k - 1) : s[m] # "v"
         IN SubSeq(s, 1, k - 1) \o SubSeq(s, k + 1, Len(s))
    ELSE s

\* cut -d. -f1 on one line: what stands before the first dot
Cut(s) ==
    IF \E k \in 1..Len(s) : s[k] = "."
    THEN LET k == CHOOSE k \in 1..Len(s) :
                      s[k] = "." /\ \A m \in 1..(k - 1) : s[m] # "."
         IN SubSeq(s, 1, k - 1)
    ELSE s

RECURSIVE Join(_)
Join(ls) ==
    IF ls = <<>> THEN <<>>
    ELSE IF Len(ls) = 1 THEN ls[1]
    ELSE ls[1] \o <<"\n">> \o Join(Tail(ls))

\* $( ... ): the lines printed, joined, without the newlines at the end
RECURSIVE Capture(_)
Capture(ls) ==
    IF ls # <<>> /\ ls[Len(ls)] = <<>>
    THEN Capture(SubSeq(ls, 1, Len(ls) - 1))
    ELSE Join(ls)

\* A && echo yes, without the || echo no
AndOrListNoElse(test, yes, no) ==
    IF test = 0 THEN [exit |-> 0, result |-> yes] ELSE [exit |-> test, result |-> <<>>]

\* [ ... ] && echo yes || echo no, test being the status of [ ... ]
AndOrList(test, yes, no) ==
    IF test = 0 THEN [exit |-> 0, result |-> yes] ELSE [exit |-> 0, result |-> no]

\* what the tools may print
NprocOutputs == {<<"8">>}

FreeHeader == << <<"total">>, <<"used">>, <<"free">> >>

FreeOutputs(totals) ==
    {<<FreeHeader, << <<"Mem:">>, t, <<"3">> >>, << <<"Swap:">>, <<"0">>, <<"0">> >> >> :
        t \in totals} \cup {<<FreeHeader>>}

DfOutputs ==
    {<< << <<"Filesystem">>, <<"Size">>, <<"Used">>, <<"Avail">> >>,
        << <<"overlay">>, <<"5", "9", "G">>, <<"2", "1", "G">>, <<"3", "6", "G">> >> >>}

NodeVersions ==
    {<<"v", "2", "0", ".", "1", "1", ".", "0">>, <<"v", "1", "8", ".", "2", "0", ".", "0">>}

StoreDirs ==
    {<<"/workspaces/", ".", "pnpm-store">>, <<"/workspaces/", "_", "pnpm-store">>,
     <<"/home/node/", ".", "pnpm-store">>}

\* free ... | grep '^Mem:' | awk '{print $2}'
MemTotal(r) ==
    LET g == Grep(r.out, <<"Mem:">>)
        a == Awk(g.out, 2)
    IN [exit |-> PipelineStatus(<<r.exit, g.exit, a.exit>>), result |-> Capture(a.out)]

\* df -h . | tail -1 | awk '{print $4}'
DiskAvail(r) ==
    LET t == TailOne(r.out)
        a == Awk(t.out, 4)
    IN [exit |-> PipelineStatus(<<r.exit, t.exit, a.exit>>), result |-> Capture(a.out)]

\* node --version | sed 's/v//' | cut -d. -f1
NodeMajor(r) ==
    [exit |-> PipelineStatus(<<r.exit, 0, 0>>), result |-> Cut(Sed(r.out))]

\* a tool that prints one line
Plain(outs) == {[exit |-> r.exit, result |-> r.out] : r \in ToolRuns(outs)}

\* the check_status calls of the script, by their line: the third argument
Expected(n) ==
    CASE n = 50 -> <<"v", "2", "0">>
      [] n = 56 -> <<"/workspaces/", ".", "pnpm-store">>
      [] n = 57 -> <<"hardlink">>
      [] n \in {58, 59} -> <<"true">>
      [] n = 63 -> <<"exists">>
      [] n = 70 -> <<"mounted">>
      [] n = 71 -> <<"Docker version">>
      [] OTHER -> <<>>

\* the lines whose command is `[ ... ] && echo 'yes' || echo 'no'`
ExistenceChecks == {63, 64, 65, 70}

\* the second argument: the exit status and output its evaluation can have
Runs(n) ==
    CASE n = 44 -> Plain(NprocOutputs)
      [] n = 45 -> {MemTotal(r) : r \in ToolRuns(FreeOutputs({<<"1", "5", "Gi">>}))}
      [] n = 46 -> {DiskAvail(r) : r \in ToolRuns(DfOutputs)}
      [] n = 50 -> Plain(NodeVersions)
      [] n = 51 -> Plain({<<"9", ".", "1">>})
      [] n = 52 -> Plain({<<"Version ", "5", ".", "3">>})
      [] n = 56 -> Plain(StoreDirs \cup {<<"undefined">>})
      [] n = 57 -> Plain({<<"hardlink">>, <<"auto">>})
      [] n \in {58, 59} -> Plain({<<"true">>, <<"false">>})
      [] n \in {63, 64, 65} ->
             {AndOrList(t, <<"exists">>, <<"missing">>) : t \in {0, 1}}
      [] n = 70 -> {AndOrList(t, <<"mounted">>, <<"not ", "mounted">>) : t \in {0, 1}}
      [] n = 71 -> Plain({<<"Docker version", " 24">>})

CheckLines == {44, 45, 46, 50, 51, 52, 56, 57, 58, 59, 63, 64, 65, 70, 71}

\* the statement that follows the check_status call of line n
AfterCheck(n) ==
    CASE n \in {46, 52, 59} -> n + 4
      [] n = 65 -> n + 3
      [] n = 71 -> n + 9
      [] OTHER -> n + 1

\* set -e: a command that returns status, outside the test of an if and not
\* before an && or ||, ends the script
ErrExit(status, exempt) == status # 0 /\ ~exempt

\* the script moves on to line next, unless set -e ends it
Advance(status, exempt, next) ==
    IF ErrExit(status, exempt)
    THEN exited' = "errexit" /\ line' = line
    ELSE exited' = exited /\ line' = next

\* a check_status call of line n, whose command evaluates to r
RunCheck(n, r) ==
    /\ exited = "no"
    /\ line = n
    /\ check' = [line |-> n, exit |-> r.exit, result |-> r.result, expected |-> Expected(n)]
    /\ printed' = CheckStatus(r.exit, r.result, Expected(n)).lines
    /\ Advance(CheckStatus(r.exit, r.result, Expected(n)).status, FALSE, AfterCheck(n))
    /\ UNCHANGED <<inContainer, node_version, mem_gb, healthVars, flagVars, evalVars, serviceVars>>

\* lines 68-74: if [ -f /.dockerenv ]
ContainerTest ==
    /\ exited = "no"
    /\ line = 68
    /\ check' = NoCheck
    /\ printed' = IF inContainer THEN <<Echo("Container Optimizations", <<>>)>>
                  ELSE <<Echo("Not running in container", <<>>)>>
    /\ Advance(IF inContainer THEN 0 ELSE 1, TRUE, IF inContainer THEN 70 ELSE 80)
    /\ UNCHANGED <<inContainer, node_version, mem_gb, healthVars, flagVars, evalVars, serviceVars>>

\* lines 80-84: if [ -d store ] && [ "$(ls -A store)" ]
StoreTest(populated) ==
    /\ exited = "no"
    /\ line = 80
    /\ check' = NoCheck
    /\ printed' = IF populated THEN <<Echo("pnpm store is populated and ready", <<>>)>>
                  ELSE <<Echo("pnpm store is empty", <<>>)>>
    /\ Advance(IF populated THEN 0 ELSE 1, TRUE, 87)
    /\ UNCHANGED <<inContainer, node_version, mem_gb, healthVars, flagVars, evalVars, serviceVars>>

\* line 87: node_version=$( ... ), whose status is that of the substitution
AssignNodeVersion(r) ==
    /\ exited = "no"
    /\ line = 87
    /\ node_version' = NodeMajor(r).result
    /\ Advance(NodeMajor(r).exit, FALSE, 88)
    /\ check' = NoCheck
    /\ printed' = <<>>
    /\ UNCHANGED <<inContainer, mem_gb, healthVars, flagVars, evalVars, serviceVars>>

\* lines 88-92: if [ "$node_version" -ge 20 ]
TestNodeVersion ==
    /\ exited = "no"
    /\ line = 88
    /\ printed' = IF TestGe(node_version, NodeMinimum) = 0
                  THEN <<Echo("Node.js version is optimal", node_version)>>
                  ELSE <<Echo("Consider upgrading to Node.js v20+", <<>>)>>
    /\ Advance(TestGe(node_version, NodeMinimum), TRUE, 95)
    /\ check' = NoCheck
    /\ UNCHANGED <<inContainer, node_version, mem_gb, healthVars, flagVars, evalVars, serviceVars>>

\* line 95: mem_gb=$( ... )
AssignMemGb(r) ==
    /\ exited = "no"
    /\ line = 95
    /\ mem_gb' = MemTotal(r).result
    /\ Advance(MemTotal(r).exit, FALSE, 96)
    /\ check' = NoCheck
    /\ printed' = <<>>
    /\ UNCHANGED <<inContainer, node_version, healthVars, flagVars, evalVars, serviceVars>>

\* lines 96-100: if [ "$mem_gb" -ge 6 ]
TestMemGb ==
    /\ exited = "no"
    /\ line = 96
    /\ printed' = IF TestGe(mem_gb, MemMinimumGb) = 0
                  THEN <<Echo("Sufficient memory available", mem_gb)>>
                  ELSE <<Echo("Low memory", mem_gb)>>
    /\ Advance(TestGe(mem_gb, MemMinimumGb), TRUE, 102)
    /\ check' = NoCheck
    /\ UNCHANGED <<inContainer, node_version, mem_gb, healthVars, flagVars, evalVars, serviceVars>>

\* lines 102-110: the closing lines, and the end of the script
Complete ==
    /\ exited = "no"
    /\ line = 102
    /\ printed' = <<Echo("Quick Performance Tests", <<>>), Echo("Health check completed!", <<>>)>>
    /\ exited' = "completed"
    /\ line' = 110
    /\ check' = NoCheck
    /\ UNCHANGED <<inContainer, node_version, mem_gb, healthVars, flagVars, evalVars, serviceVars>>

\* the script run in or outside a container, the endpoint and the flags not in use
InitScript ==
    /\ clock = 0
    /\ db = "up"
    /\ calls = [i \in CallIds |-> IdleCall]
    /\ started = 0
    /\ dbQueries = 0
    /\ log = <<>>
    /\ store = InitialRows
    /\ FlagsInit(AllUnset)
    /\ \E container \in BOOLEAN : ScriptInit(container)
    /\ EvalInit
    /\ ServiceInit(Null)

NextScript ==
    \/ \E n \in CheckLines : \E r \in Runs(n) : RunCheck(n, r)
    \/ ContainerTest
    \/ \E populated \in BOOLEAN : StoreTest(populated)
    \/ \E r \in ToolRuns(NodeVersions) : AssignNodeVersion(r)
    \/ TestNodeVersion
    \/ \E r \in ToolRuns(FreeOutputs({<<"1", "5">>, <<"3">>})) : AssignMemGb(r)
    \/ TestMemGb
    \/ Complete

\* bash runs the script statement by statement
SpecScript == InitScript /\ [][NextScript]_vars /\ WF_vars(NextScript)

\* the words check_status prints
Labels == {printed[k].text : k \in 1..Len(printed)} \cap {"OK", "Warning", "Failed"}

\* C22: every check_status call reports exactly one of three outcomes: Failed
\* when the command exits non-zero; OK when it exits zero and the expected string
\* is empty, or is contained in the output, or matches it as a regular
\* expression; Warning, with the expected and the actual value printed, when it
\* exits zero and none of these holds.
C22_ThreeOutcomes ==
    check # NoCheck =>
        LET ok == \/ check.expected = <<>>
                  \/ Substring(check.result, check.expected)
                  \/ RegexMatch(check.result, check.expected)
        IN /\ Cardinality({k \in 1..Len(printed) :
                              printed[k].text \in {"OK", "Warning", "Failed"}}) = 1
           /\ check.exit # 0 => Labels = {"Failed"}
           /\ check.exit = 0 /\ ok => Labels = {"OK"}
           /\ check.exit = 0 /\ ~ok =>
                  /\ Labels = {"Warning"}
                  /\ \E k \in 1..Len(printed) : printed[k] = Echo("Expected:", check.expected)
                  /\ \E k \in 1..Len(printed) : printed[k] = Echo("Got:", check.result)

\* the store directory check reports OK for an output that only the regular
\* expression matches
C22_Witness ==
    /\ check.line = 56
    /\ check.exit = 0
    /\ ~Substring(check.result, check.expected)
    /\ RegexMatch(check.result, check.expected)
    /\ Labels = {"OK"}

\* C23: the script always runs to its final "Health check completed!" line: set -e
\* ends it at no failing, warning or missing-tool outcome of a check, nor at an
\* empty node version or memory value in the recommendations.
C23_RunsToCompletion ==
    /\ [](exited # "errexit")
    /\ <>(exited = "completed" /\ printed[Len(printed)].text = "Health check completed!")

\* the script completed in a container in which node and free are missing
C23_Witness ==
    /\ exited = "completed"
    /\ inContainer
    /\ node_version = <<>>
    /\ mem_gb = <<>>

\* C24: a check whose expected string is empty reports OK for every output of a
\* command that exits zero, so the TypeScript and Next.js cache checks report OK
\* when their command prints 'missing'; and the existence checks of the form
\* `[ ... ] && echo 'exists' || echo 'missing'` never report Failed.
C24_EmptyExpectedAlwaysOK ==
    check # NoCheck =>
        /\ check.expected = <<>> /\ check.exit = 0 => Labels = {"OK"}
        /\ check.line \in {64, 65} /\ check.result = <<"missing">> => Labels = {"OK"}
        /\ check.line \in ExistenceChecks => Labels # {"Failed"} /\ check.exit = 0

\* the TypeScript cache check reports OK for a cache that is missing
C24_Witness ==
    /\ check.line = 64
    /\ check.result = <<"missing">>
    /\ Labels = {"OK"}
    /\ Echo("->", <<"missing">>) \in {printed[k] : k \in 1..Len(printed)}

----------------------------------------------------------------------------
\* docs/api/feature-flags.md, Phase 2: evaluateFeatureFlag
\*
\* A user id is the sequence of its UTF-16 code units (charCodeAt). A 32-bit
\* integer is the pair of its 16-bit halves, and the arithmetic modulo 2^32 is
\* done on the halves.

\* "alice"
Alice == <<97, 108, 105, 99, 101>>
\* "user-12345"
User12345 == <<117, 115, 101, 114, 45, 49, 50, 51, 52, 53>>
\* "admin-1", whose hash is negative before Math.abs
Admin1 == <<97, 100, 109, 105, 110, 45, 49>>
\* "polygenelubricants", whose hash is -2^31 before Math.abs
Polygenelubricants ==
    <<112, 111, 108, 121, 103, 101, 110, 101, 108, 117, 98, 114, 105, 99, 97, 110, 116, 115>>

UserIds == {Alice, User12345, Admin1, Polygenelubricants}

\* context.user is undefined
NoUser == [present |-> FALSE, id |-> <<>>, role |-> ""]

\* context.user: two of the users share an id and differ in their role
Users ==
    {[present |-> TRUE, id |-> Alice, role |-> "user"],
     [present |-> TRUE, id |-> User12345, role |-> "beta"],
     [present |-> TRUE, id |-> Admin1, role |-> "admin"],
     [present |-> TRUE, id |-> Polygenelubricants, role |-> "user"],
     [present |-> TRUE, id |-> Polygenelubricants, role |-> "admin"]}

\* FeatureFlagContext (environment and region are read by nothing)
Contexts == {[user |-> NoUser]} \cup {[user |-> u] : u \in Users}

RolloutPercentages == {0, 33, 48, 100}

\* config.rules with no rule; a list that is undefined is the empty set
NoRules == [userIds |-> {}, userRoles |-> {}, betaUsers |-> FALSE, adminOnly |-> FALSE]

RuleSets ==
    {NoRules,
     [NoRules EXCEPT !.userIds = {Alice}],
     [NoRules EXCEPT !.adminOnly = TRUE],
     [userIds |-> {Alice}, userRoles |-> {"user"}, betaUsers |-> TRUE, adminOnly |-> TRUE]}

\* FeatureFlagConfig
Configs ==
    [enabled : BOOLEAN, rolloutPercentage : RolloutPercentages, rules : RuleSets]

\* hash = (hash << 5) - hash + char; hash = hash & hash
Int32Step(hash, char) ==
    LET lo == 31 * hash.lo + char
        hi == 31 * hash.hi + (lo \div 65536)
    IN [hi |-> hi % 65536, lo |-> lo % 65536]

\* the sign bit of a 32-bit integer
Negative(hash) == hash.hi >= 32768

\* Math.abs of a 32-bit integer (2^31 for -2^31)
MathAbs(hash) ==
    IF Negative(hash)
    THEN [hi |-> 65535 - hash.hi + (IF hash.lo = 0 THEN 1 ELSE 0),
          lo |-> (65536 - hash.lo) % 65536]
    ELSE hash

RECURSIVE HashLoop(_, _)
HashLoop(userId, hash) ==
    IF userId = <<>> THEN hash
    ELSE HashLoop(Tail(userId), Int32Step(hash, Head(userId)))

\* hashUserId(userId)
hashUserId(userId) == MathAbs(HashLoop(userId, [hi |-> 0, lo |-> 0]))

\* userHash % 100
Percentile(userHash) ==
    (((userHash.hi % 100) * (65536 % 100)) + (userHash.lo % 100)) % 100

\* const userHash = hashUserId(id); const userPercentile = userHash % 100,
\* computed once for every id in use
userPercentile == [id \in UserIds \cup {<<>>} |-> Percentile(hashUserId(id))]

\* context.user?.id || ""
IdOrEmpty(context) == IF context.user.present THEN context.user.id ELSE <<>>

\* context.user?.role
RoleOf(context) == IF context.user.present THEN context.user.role ELSE ""

\* the user-id, role, adminOnly and betaUsers rules
ExplicitRule(context, config) ==
    \/ IdOrEmpty(context) \in config.rules.userIds
    \/ RoleOf(context) \in config.rules.userRoles
    \/ config.rules.adminOnly /\ RoleOf(context) = "admin"
    \/ config.rules.betaUsers /\ RoleOf(context) = "beta"

\* a rollout that hashes context.user?.id || "" also when there is no user
RolloutAnonymous(context, config) ==
    IF config.rolloutPercentage > 0
    THEN userPercentile[IdOrEmpty(context)] < config.rolloutPercentage
    ELSE FALSE

\* the percentage-based rollout
Rollout(context, config) ==
    IF config.rolloutPercentage > 0 /\ context.user.present
    THEN userPercentile[context.user.id] < config.rolloutPercentage
    ELSE FALSE

\* an evaluator that looks at the rules before it looks at config.enabled
evaluateFeatureFlagRulesFirst(flagKey, context, config) ==
    IF ExplicitRule(context, config) THEN TRUE
    ELSE IF ~config.enabled THEN FALSE
    ELSE Rollout(context, config)

evaluateFeatureFlag(flagKey, context, config) ==
    IF ~config.enabled THEN FALSE
    ELSE IF ExplicitRule(context, config) THEN TRUE
    ELSE Rollout(context, config)

\* what is kept of the call before the last one
Summary(call) ==
    IF call = NoEvaluation THEN NoSummary
    ELSE [called |-> TRUE,
          user |-> [present |-> call.context.user.present, id |-> IdOrEmpty(call.context)],
          rolloutPercentage |-> call.config.rolloutPercentage,
          byRollout |-> call.config.enabled /\ ~ExplicitRule(call.context, call.config),
          result |-> call.result]

\* a caller evaluates flag flagKey, configured by config, for context
Evaluate(flagKey, context, config) ==
    /\ evalPrev' = Summary(evalCall)
    /\ evalCall' = [called |-> TRUE, context |-> context, config |-> config,
                    result |-> evaluateFeatureFlag(flagKey, context, config)]
    /\ UNCHANGED <<healthVars, flagVars, scriptVars, serviceVars>>

\* the evaluator in use, the rest of the repository at rest
InitEval ==
    /\ clock = 0
    /\ db = "up"
    /\ calls = [i \in CallIds |-> IdleCall]
    /\ started = 0
    /\ dbQueries = 0
    /\ log = <<>>
    /\ store = InitialRows
    /\ FlagsInit(AllUnset)
    /\ OthersInit

NextEval ==
    \E context \in Contexts, config \in Configs :
        Evaluate("NEW_DASHBOARD", context, config)

SpecEval == InitEval /\ [][NextEval]_vars

\* the last call was decided by the rollout: flag enabled, no explicit rule matched
ByRollout == evalCall.called /\ Summary(evalCall).byRollout

\* C25: evaluateFeatureFlag returns false for every context and every rule set
\* when config.enabled is false: no user-id, role, adminOnly, betaUsers or
\* rollout-percentage rule enables a globally disabled flag.
C25_DisabledIsFalse ==
    evalCall.called /\ ~evalCall.config.enabled => evalCall.result = FALSE

\* a disabled flag evaluated for a user whom the rules name, rolled out to all
C25_Witness ==
    /\ evalCall.called
    /\ ~evalCall.config.enabled
    /\ ExplicitRule(evalCall.context, evalCall.config)
    /\ evalCall.config.rolloutPercentage = 100
    /\ evalCall.result = FALSE

\* C26: for an enabled flag and a user matched by no explicit rule the result
\* is a function of the user id and rolloutPercentage only, is monotone in
\* rolloutPercentage, is true for every user at 100 and false at 0, and a
\* context without a user is never enabled by the rollout.
C26_RolloutConsistent ==
    ByRollout =>
        /\ evalCall.config.rolloutPercentage = 100 /\ evalCall.context.user.present
               => evalCall.result
        /\ evalCall.config.rolloutPercentage = 0 => ~evalCall.result
        /\ ~evalCall.context.user.present => ~evalCall.result
        /\ evalPrev.called /\ evalPrev.byRollout /\ evalPrev.user = Summary(evalCall).user =>
               /\ evalPrev.rolloutPercentage = evalCall.config.rolloutPercentage
                      => evalPrev.result = evalCall.result
               /\ evalPrev.rolloutPercentage <= evalCall.config.rolloutPercentage
                      => (evalPrev.result => evalCall.result)
               /\ evalPrev.rolloutPercentage >= evalCall.config.rolloutPercentage
                      => (evalCall.result => evalPrev.result)

\* one user, whose hash overflows 32 bits, outside the rollout at 48 and inside at 100
C26_Witness ==
    /\ ByRollout
    /\ evalPrev.called /\ evalPrev.byRollout
    /\ evalCall.context.user.present
    /\ evalCall.context.user.id = Polygenelubricants
    /\ evalPrev.user = Summary(evalCall).user
    /\ evalPrev.rolloutPercentage = 48 /\ ~evalPrev.result
    /\ evalCall.config.rolloutPercentage = 100 /\ evalCall.result

----------------------------------------------------------------------------
\* docs/api/feature-flags.md, Phase 3: FeatureFlagService, for one key
\*
\* A call of getFlag or updateFlag is a record of `ops`. A call runs up to its
\* next await in one step; the database, which is the environment, executes the
\* awaited query in a step of its own; the call then runs on in a later step.

OpIds == 1..MaxOps

\* the row of the key, its content numbered by the updates applied to it
Flag(content) == [kind |-> "flag", id |-> "flag-1", content |-> content]

IsFlag(v) == v.kind = "flag"

\* a cache test that still serves the entry at the instant of its expiry
CacheHitInclusive(cached, expiry, t) == IsFlag(cached) /\ expiry # 0 /\ t <= expiry

\* cached && expiry && Date.now() < expiry
CacheHit(cached, expiry, t) == IsFlag(cached) /\ expiry # 0 /\ t < expiry

\* getFlag up to its return or its await; expired records that the call found
\* an entry it did not serve
GetFlagCall(op) ==
    [op EXCEPT !.hit = CacheHit(cache, cacheExpiry, now),
               !.expired = IsFlag(cache) /\ ~CacheHit(cache, cacheExpiry, now),
               !.flag = IF CacheHit(cache, cacheExpiry, now) THEN cache ELSE Undefined,
               !.pc = IF CacheHit(cache, cacheExpiry, now)
                      THEN (IF op.kind = "get" THEN "done" ELSE "found")
                      ELSE "find"]

\* the number of updateFlag calls made
UpdatesCalled == Cardinality({i \in OpIds : ops[i].kind = "update"})

\* the greater of two numbers
Max(a, b) == IF a >= b THEN a ELSE b

\* a caller calls getFlag(key) or updateFlag(key, updates, changedBy)
ServiceCall(i, kind) ==
    /\ ops[i].pc = "idle"
    /\ \A h \in OpIds : h < i => ops[h].pc # "idle"
    /\ kind = "update" => UpdatesCalled < MaxUpdates
    /\ ops' = [ops EXCEPT ![i] = GetFlagCall([@ EXCEPT !.kind = kind, !.floor = committed])]
    /\ UNCHANGED <<now, cache, cacheExpiry, featureFlag, featureFlagEvent, committed>>
    /\ UNCHANGED <<healthVars, flagVars, scriptVars, evalVars>>

\* the database executes db.featureFlag.findUnique({ where: { key } })
FindUnique(i) ==
    /\ ops[i].pc = "find"
    /\ ops' = [ops EXCEPT ![i] = [@ EXCEPT !.flag = featureFlag, !.pc = "found"]]
    /\ UNCHANGED <<now, cache, cacheExpiry, featureFlag, featureFlagEvent, committed>>
    /\ UNCHANGED <<healthVars, flagVars, scriptVars, evalVars>>

\* getFlag runs on after its await and returns; an updateFlag that awaited it
\* runs on to db.featureFlag.update
GetFlagResume(i) ==
    /\ ops[i].pc = "found"
    /\ IF ~ops[i].hit /\ IsFlag(ops[i].flag)
       THEN cache' = ops[i].flag /\ cacheExpiry' = now + CACHE_TTL
       ELSE UNCHANGED <<cache, cacheExpiry>>
    /\ ops' = [ops EXCEPT ![i] =
                  [@ EXCEPT !.pc = IF ops[i].kind = "get" THEN "done" ELSE "update"]]
    /\ UNCHANGED <<now, featureFlag, featureFlagEvent, committed>>
    /\ UNCHANGED <<healthVars, flagVars, scriptVars, evalVars>>

\* the database executes db.featureFlag.update: it rejects when no row has the key
Update(i) ==
    /\ ops[i].pc = "update"
    /\ IF IsFlag(featureFlag)
       THEN /\ featureFlag' = Flag(featureFlag.content + 1)
            /\ ops' = [ops EXCEPT ![i] =
                          [@ EXCEPT !.wrote = featureFlag.content + 1, !.pc = "updated"]]
       ELSE /\ featureFlag' = featureFlag
            /\ ops' = [ops EXCEPT ![i] = [@ EXCEPT !.pc = "failed"]]
    /\ UNCHANGED <<now, cache, cacheExpiry, featureFlagEvent, committed>>
    /\ UNCHANGED <<healthVars, flagVars, scriptVars, evalVars>>

\* updateFlag runs on to db.featureFlagEvent.create
UpdateResume(i) ==
    /\ ops[i].pc = "updated"
    /\ ops' = [ops EXCEPT ![i] = [@ EXCEPT !.pc = "create"]]
    /\ UNCHANGED <<now, cache, cacheExpiry, featureFlag, featureFlagEvent, committed>>
    /\ UNCHANGED <<healthVars, flagVars, scriptVars, evalVars>>

\* the database executes db.featureFlagEvent.create
CreateEvent(i) ==
    /\ ops[i].pc = "create"
    /\ featureFlagEvent' =
           Append(featureFlagEvent,
                  [flagId |-> ops[i].flag.id, eventType |-> "rule_updated",
                   oldValue |-> ops[i].flag.content, newValue |-> ops[i].wrote])
    /\ ops' = [ops EXCEPT ![i] = [@ EXCEPT !.pc = "created"]]
    /\ UNCHANGED <<now, cache, cacheExpiry, featureFlag, committed>>
    /\ UNCHANGED <<healthVars, flagVars, scriptVars, evalVars>>

\* updateFlag clears the cache and returns
ClearCache(i) ==
    /\ ops[i].pc = "created"
    /\ cache' = Undefined
    /\ cacheExpiry' = 0
    /\ committed' = Max(committed, ops[i].wrote)
    /\ ops' = [ops EXCEPT ![i] = [@ EXCEPT !.pc = "done"]]
    /\ UNCHANGED <<now, featureFlag, featureFlagEvent>>
    /\ UNCHANGED <<healthVars, flagVars, scriptVars, evalVars>>

\* half a CACHE_TTL passes
ServiceTick ==
    /\ now < MaxTicks * (CACHE_TTL \div 2)
    /\ now' = now + (CACHE_TTL \div 2)
    /\ UNCHANGED <<ops, cache, cacheExpiry, featureFlag, featureFlagEvent, committed>>
    /\ UNCHANGED <<healthVars, flagVars, scriptVars, evalVars>>

\* the service constructed over a table that holds the key or does not
InitService ==
    /\ clock = 0
    /\ db = "up"
    /\ calls = [i \in CallIds |-> IdleCall]
    /\ started = 0
    /\ dbQueries = 0
    /\ log = <<>>
    /\ store = InitialRows
    /\ FlagsInit(AllUnset)
    /\ ScriptInit(FALSE)
    /\ EvalInit
    /\ \E row \in {Null, Flag(0)} : ServiceInit(row)

NextService ==
    \/ \E i \in OpIds, kind \in {"get", "update"} : ServiceCall(i, kind)
    \/ \E i \in OpIds : FindUnique(i)
    \/ \E i \in OpIds : GetFlagResume(i)
    \/ \E i \in OpIds : Update(i)
    \/ \E i \in OpIds : UpdateResume(i)
    \/ \E i \in OpIds : CreateEvent(i)
    \/ \E i \in OpIds : ClearCache(i)
    \/ ServiceTick

SpecService == InitService /\ [][NextService]_vars

\* getFlag call i has returned
Returned(i) == ops[i].kind = "get" /\ ops[i].pc = "done"

\* C27: updateFlag clears the cache entry of the key, so once updateFlag(key)
\* has completed every later getFlag(key) returns the updated flag and never the
\* pre-update value, in every interleaving of getFlag and updateFlag calls on
\* the key, including a getFlag that started its database read before the update.
C27_NoStaleAfterUpdate ==
    \A i \in OpIds :
        Returned(i) /\ ops[i].floor > 0 =>
            IsFlag(ops[i].flag) /\ ops[i].flag.content >= ops[i].floor

\* call i is made in this step
Called(i) == ops[i].pc = "idle" /\ ops'[i].pc # "idle"

\* C28: getFlag serves a cached flag only while the current time is strictly
\* before its expiry, which is the time of the fetch plus CACHE_TTL (60000 ms);
\* at or after expiry it fetches the flag from the database again; a key for
\* which the database returns no flag is never put in the cache.
C28_CacheExpiry ==
    /\ [](CACHE_TTL = 60000 /\ cache # Null)
    /\ [][/\ \A i \in OpIds :
                 Called(i) =>
                     /\ ops'[i].hit =>
                            /\ IsFlag(cache) /\ now < cacheExpiry
                            /\ ops'[i].flag = cache
                            /\ ops'[i].pc # "find"
                     /\ IsFlag(cache) /\ now >= cacheExpiry =>
                            ~ops'[i].hit /\ ops'[i].pc = "find"
          /\ IsFlag(cache') /\ <<cache, cacheExpiry>> # <<cache', cacheExpiry'>> =>
                 /\ cacheExpiry' = now + CACHE_TTL
                 /\ \E i \in OpIds :
                        /\ ops[i].pc = "found" /\ ops'[i].pc # "found"
                        /\ ~ops[i].hit
                        /\ cache' = ops[i].flag
          /\ \A i \in OpIds :
                 ops[i].pc = "found" /\ ops'[i].pc # "found" /\ ~IsFlag(ops[i].flag) =>
                     <<cache, cacheExpiry>> = <<cache', cacheExpiry'>>]_vars

\* a flag cached and not yet expired was served to one call, and another call
\* fetched the flag again at the instant of the expiry of the entry it found
C28_Witness ==
    \E i, j \in OpIds :
        /\ Returned(i) /\ ops[i].hit
        /\ Returned(j) /\ ops[j].expired
        /\ now = CACHE_TTL
        /\ cacheExpiry = now + CACHE_TTL

====
